---- MODULE Spec2Model ----
(***************************************************************************)
(* Model of the 4D ray tracer's frame loop (App::new, App::update):         *)
(* the editor panels that mutate the camera and the scene collections, the *)
(* per-frame reconciliation of the three GPU storage buffers (hyper         *)
(* spheres, hyper planes, materials) with their bind groups, and the        *)
(* compute dispatch that reads them.                                        *)
(*                                                                          *)
(* One frame of App::update is the sequence of steps                        *)
(*   camera_rotation -> camera_panel -> spheres_panel -> planes_panel ->    *)
(*   upload_camera -> upload_objects -> upload_materials -> dispatch ->     *)
(*   input                                                                  *)
(* taken in program order; pc holds the position inside the frame.          *)
(* The plane algebra and the rotor the camera is oriented with are modelled *)
(* as operators, used by the frame loop and explored on their own.          *)
(* A panic (Vec::remove out of bounds) ends the process: pc = "panicked".   *)
(***************************************************************************)
EXTENDS Integers, Sequences, FiniteSets, TLC

VARIABLES
    pc,                               \* position inside App::update
    camera,                           \* App.camera (the clamped fields)
    camera_uniform_buffer,            \* contents of the camera uniform buffer
    hyper_spheres,                    \* App.hyper_spheres
    hyper_sphere_names,               \* App.hyper_sphere_names
    hyper_spheres_storage_buffer,     \* the allocation: [id, data]
    hyper_spheres_storage_buffer_size,
    hyper_planes,                     \* App.hyper_planes
    hyper_plane_names,                \* App.hyper_plane_names
    hyper_planes_storage_buffer,
    hyper_planes_storage_buffer_size,
    objects_bind_group,               \* [gen, spheres, planes]: buffers bound
    materials,                        \* App.materials
    materials_storage_buffer,
    materials_storage_buffer_size,
    materials_bind_group,             \* [gen, materials]: buffer bound
    dispatched,                       \* what the last dispatch was bound to
    sphere_adds,                      \* history: "Add Hyper Sphere" clicks
    sphere_deletes,                   \* history: hyper spheres removed
    camera_basis,                     \* camera_forward, camera_right, camera_up
    calc,                             \* a call of the plane algebra or rotor
    modifiers                         \* i.modifiers as the last input step saw it

vars == << pc, camera, camera_uniform_buffer,
           hyper_spheres, hyper_sphere_names,
           hyper_spheres_storage_buffer, hyper_spheres_storage_buffer_size,
           hyper_planes, hyper_plane_names,
           hyper_planes_storage_buffer, hyper_planes_storage_buffer_size,
           objects_bind_group, materials, materials_storage_buffer,
           materials_storage_buffer_size, materials_bind_group,
           dispatched, sphere_adds, sphere_deletes, camera_basis, calc,
           modifiers >>

cameraVars == << camera, camera_uniform_buffer, camera_basis >>
sphereVars == << hyper_spheres, hyper_sphere_names >>
planeVars == << hyper_planes, hyper_plane_names >>
gpuVars == << hyper_spheres_storage_buffer, hyper_spheres_storage_buffer_size,
              hyper_planes_storage_buffer, hyper_planes_storage_buffer_size,
              objects_bind_group, materials_storage_buffer,
              materials_storage_buffer_size, materials_bind_group >>
historyVars == << sphere_adds, sphere_deletes >>

(***************************************************************************)
(* Bounds of the model.                                                     *)
(***************************************************************************)
\* the add buttons are disabled in the model once materials holds this many
MaxMaterials == 4
\* the distance widgets write NaN or a value in -1 .. MaxDistance (in 0.01s)
MaxDistance == 2
\* the count widgets write a value in 0 .. MaxCount
MaxCount == 2
\* the angles are kept within this many half turns of zero
MaxAngle == 2
\* the radius widgets leave values from -1 to this
MaxRadius == 2
\* the rotor and plane components tried run from -MaxComponent to it
MaxComponent == 1
\* the unit vectors and unit planes tried have integer components over this
\* divisor
UnitDivisor == 3
\* the delete loop is tried on sequences of up to this many records
MaxListed == 3
\* the sines and cosines tried are integers over this divisor
TrigDivisor == 5

(***************************************************************************)
(* Byte layout of the storage buffers (encase, WGSL storage layout).        *)
(***************************************************************************)
\* offset of the runtime array after the u32 count (array alignment 16)
HeaderSize == 16
\* GpuHyperSphere: vec4<f32>, f32, u32 -> 24 bytes rounded up to 16
SphereStride == 32
\* GpuHyperPlane: vec4<f32>, vec4<f32>, u32 -> 36 bytes rounded up to 16
PlaneStride == 48
\* GpuMaterial: vec3<f32>, vec3<f32>, f32 -> 32 bytes
MaterialStride == 32

(***************************************************************************)
(* f32 values of the distance fields: NaN, or a number of hundredths.       *)
(***************************************************************************)
NaN == [nan |-> TRUE, v |-> 0]

F32(x) == [nan |-> FALSE, v |-> x]

\* f32 comparison a >= b: false when either side is NaN
F32Ge(a, b) == ~a.nan /\ ~b.nan /\ a.v >= b.v

\* (variant: a maximum that lets NaN through)
F32MaxNaNPoisons(a, b) ==
    IF a.nan \/ b.nan THEN NaN ELSE IF a.v >= b.v THEN a ELSE b

\* f32::max: when one argument is NaN the other is returned
F32Max(a, b) ==
    IF a.nan THEN b ELSE IF b.nan THEN a ELSE IF a.v >= b.v THEN a ELSE b

\* u32::max (Ord::max)
U32Max(a, b) == IF a >= b THEN a ELSE b

\* what a distance DragValue may leave in its field
DistanceInputs == {NaN} \cup { F32(x) : x \in -1 .. MaxDistance }

\* what a u32 DragValue may leave in its field
CountInputs == 0 .. MaxCount

(***************************************************************************)
(* Serialization (DynamicStorageBuffer::write of count + runtime array).    *)
(* A buffer's data is the count word followed by one cell per record; an    *)
(* empty runtime array still occupies one zeroed element.                   *)
(***************************************************************************)
\* the records an all-zero element decodes to
ZeroSphere == [center |-> << 0, 0, 0, 0 >>, radius |-> 0, material |-> 0]
ZeroPlane ==
    [point |-> << 0, 0, 0, 0 >>, normal |-> << 0, 0, 0, 0 >>, material |-> 0]
ZeroMaterial == [base_color |-> << 0, 0, 0 >>]

Serialize(seq, zero) ==
    << Len(seq) >> \o (IF seq = << >> THEN << zero >> ELSE seq)

\* length in bytes of a buffer whose data has that many cells
ByteLen(data, stride) == HeaderSize + stride * (Len(data) - 1)

\* <T as ShaderType>::min_size(): the header and one array element
MinSize(stride) == HeaderSize + stride

\* The identity of an allocation: which mirror it was created for and how
\* many allocations that mirror had before it.  Two allocations are the
\* same object exactly when their ids are equal.
FirstId(mirror) == << mirror, 0 >>

NextId(id) == << id[1], id[2] + 1 >>

\* device.create_buffer: a zero-initialised allocation of min_size bytes
CreateBuffer(id, zero) == [id |-> id, data |-> << 0, zero >>]

\* (variant: the in-place branch forgets the write)
WriteBufferSkipped(buffer, payload) == buffer

\* queue.write_buffer(buffer, 0, payload): the bytes past the payload stay
WriteBuffer(buffer, payload) ==
    [buffer EXCEPT !.data =
        payload \o SubSeq(buffer.data, Len(payload) + 1, Len(buffer.data))]

\* device.create_buffer_init: a new allocation holding exactly the payload
CreateBufferInit(id, payload) == [id |-> id, data |-> payload]

(***************************************************************************)
(* One mirror's reconciliation, as the three upload blocks of App::update   *)
(* do it: write in place when the payload fits the tracked size, otherwise  *)
(* replace the allocation and track the payload's length.                   *)
(***************************************************************************)
\* (variant: reallocates whenever the payload is not exactly the tracked size)
ReconcileExactFit(buffer, size, payload, stride) ==
    IF ByteLen(payload, stride) = size
    THEN [buffer |-> WriteBuffer(buffer, payload),
          size |-> size,
          invalidated |-> FALSE]
    ELSE [buffer |-> CreateBufferInit(NextId(buffer.id), payload),
          size |-> ByteLen(payload, stride),
          invalidated |-> TRUE]

\* (variant: geometric growth, the new capacity is twice the payload)
ReconcileRoundsUp(buffer, size, payload, stride) ==
    IF ByteLen(payload, stride) <= size
    THEN [buffer |-> WriteBuffer(buffer, payload),
          size |-> size,
          invalidated |-> FALSE]
    ELSE [buffer |-> CreateBufferInit(NextId(buffer.id), payload),
          size |-> 2 * ByteLen(payload, stride),
          invalidated |-> TRUE]

\* (variant: a new allocation every frame)
ReconcileAlwaysReallocates(buffer, size, payload, stride) ==
    [buffer |-> CreateBufferInit(NextId(buffer.id), payload),
     size |-> IF ByteLen(payload, stride) <= size
              THEN size ELSE ByteLen(payload, stride),
     invalidated |-> ByteLen(payload, stride) > size]

Reconcile(buffer, size, payload, stride) ==
    IF ByteLen(payload, stride) <= size
    THEN [buffer |-> WriteBuffer(buffer, payload),
          size |-> size,
          invalidated |-> FALSE]
    ELSE [buffer |-> CreateBufferInit(NextId(buffer.id), payload),
          size |-> ByteLen(payload, stride),
          invalidated |-> TRUE]

(***************************************************************************)
(* The records the editor creates.                                          *)
(***************************************************************************)
DefaultMaterial == [base_color |-> << 9, 9, 9 >>]

DefaultHyperSphere(material) ==
    [center |-> << 0, 0, 0, 0 >>, radius |-> 1, material |-> material]

DefaultHyperPlane(material) ==
    [point |-> << 0, 0, 0, 0 >>, normal |-> << 0, 1, 0, 0 >>,
     material |-> material]

\* Vec::remove(i), i counted from 0
Remove(seq, i) == SubSeq(seq, 1, i) \o SubSeq(seq, i + 2, Len(seq))

\* the loop "for i in to_delete { objects.remove(i); names.remove(i); }":
\* to_delete holds the flagged indices in ascending order; Vec::remove
\* panics, before changing anything, on an index past the end
RECURSIVE DeleteLoop(_, _, _, _)
DeleteLoop(objects, names, to_delete, k) ==
    IF \A i \in to_delete : i < k
    THEN [objects |-> objects, names |-> names, panicked |-> FALSE]
    ELSE IF k \notin to_delete
    THEN DeleteLoop(objects, names, to_delete, k + 1)
    ELSE IF k >= Len(objects)
    THEN [objects |-> objects, names |-> names, panicked |-> TRUE]
    ELSE DeleteLoop(Remove(objects, k), Remove(names, k), to_delete, k + 1)

(***************************************************************************)
(* The plane algebra (bivector.rs) and the rotor (rotor.rs).                *)
(*                                                                          *)
(* Numbers are exact.  A Vector4 is a tuple << x, y, z, w >> of integers,   *)
(* and a BiVector4 a record of its six integer components.  A value that    *)
(* went through a division by a length carries the divisor beside its       *)
(* integer components: a rotor [s, bv, n2, nan] stands for the components   *)
(* s and bv each divided by the square root of n2, and nan tells that the   *)
(* components are NaN (the quotient 0.0 / 0.0).                             *)
(***************************************************************************)
BiVector4(xy, xz, xw, yz, yw, zw) ==
    [xy |-> xy, xz |-> xz, xw |-> xw, yz |-> yz, yw |-> yw, zw |-> zw]

ZERO == BiVector4(0, 0, 0, 0, 0, 0)

\* the twelve named unit planes, as the table of constants spells them
XY == BiVector4(0, 1, 0, 0, 0, 0)
XZ == BiVector4(0, 1, 0, 0, 0, 0)
XW == BiVector4(0, 0, 1, 0, 0, 0)
YX == BiVector4(-1, 0, 0, 0, 0, 0)
YZ == BiVector4(0, 0, 0, 1, 0, 0)
YW == BiVector4(0, 0, 0, 0, 1, 0)
ZX == BiVector4(0, -1, 0, 0, 0, 0)
ZY == BiVector4(0, 0, 0, -1, 0, 0)
ZW == BiVector4(0, 0, 0, 0, 0, 1)
WX == BiVector4(0, 0, -1, 0, 0, 0)
WY == BiVector4(0, 0, 0, 0, -1, 0)
WZ == BiVector4(0, 0, 0, 0, 0, -1)

\* the constants by name
UnitPlaneNames ==
    {"XY", "XZ", "XW", "YX", "YZ", "YW", "ZX", "ZY", "ZW", "WX", "WY", "WZ"}

UnitPlane(name) ==
    CASE name = "XY" -> XY [] name = "XZ" -> XZ [] name = "XW" -> XW
      [] name = "YX" -> YX [] name = "YZ" -> YZ [] name = "YW" -> YW
      [] name = "ZX" -> ZX [] name = "ZY" -> ZY [] name = "ZW" -> ZW
      [] name = "WX" -> WX [] name = "WY" -> WY [] name = "WZ" -> WZ

\* impl Neg for BiVector4
BiVector4Neg(b) == BiVector4(-b.xy, -b.xz, -b.xw, -b.yz, -b.yw, -b.zw)

BiVector4_sqr_length(b) ==
    b.xy * b.xy + b.xz * b.xz + b.xw * b.xw
        + b.yz * b.yz + b.yw * b.yw + b.zw * b.zw

\* BiVector4::normalized: every component divided by the length; a zero
\* length makes every quotient 0.0 / 0.0
BiVector4_normalized(b) ==
    LET sqr == BiVector4_sqr_length(b)
    IN IF sqr = 0
       THEN [bv |-> b, n2 |-> 1, nan |-> TRUE]
       ELSE [bv |-> b, n2 |-> sqr, nan |-> FALSE]

\* cgmath: Vector4::dot
Dot(a, b) == a[1] * b[1] + a[2] * b[2] + a[3] * b[3] + a[4] * b[4]

VecNeg(a) == << -a[1], -a[2], -a[3], -a[4] >>

VecScale(k, a) == << k * a[1], k * a[2], k * a[3], k * a[4] >>

\* (variant: the second products are added)
wedgeSymmetric(a, b) ==
    BiVector4(a[1] * b[2] + b[1] * a[2], a[1] * b[3] + b[1] * a[3],
              a[1] * b[4] + b[1] * a[4], a[2] * b[3] + b[2] * a[3],
              a[2] * b[4] + b[2] * a[4], a[3] * b[4] + b[3] * a[4])

wedge(a, b) ==
    BiVector4(a[1] * b[2] - b[1] * a[2], a[1] * b[3] - b[1] * a[3],
              a[1] * b[4] - b[1] * a[4], a[2] * b[3] - b[2] * a[3],
              a[2] * b[4] - b[2] * a[4], a[3] * b[4] - b[3] * a[4])

Rotor4(s, bv) == [s |-> s, bv |-> bv, n2 |-> 1, nan |-> FALSE]

IDENTITY == Rotor4(1, ZERO)

Rotor4_sqr_length(self) == self.s * self.s + BiVector4_sqr_length(self.bv)

\* (variant: a zero length leaves the rotor as it is)
Rotor4_normalizedGuarded(self) ==
    LET sqr == Rotor4_sqr_length(self)
    IN IF sqr = 0 THEN self ELSE [self EXCEPT !.n2 = sqr]

\* Rotor4::normalized: the seven components divided by the length
Rotor4_normalized(self) ==
    LET sqr == Rotor4_sqr_length(self)
    IN IF sqr = 0 \/ self.nan
       THEN [self EXCEPT !.nan = TRUE]
       ELSE [self EXCEPT !.n2 = sqr]

\* (variant: the conjugate keeps the plane part)
Rotor4NegKeepsPlane(self) == self

\* impl Neg for Rotor4: the scalar is kept, the plane part negated
Rotor4Neg(self) == [self EXCEPT !.bv = BiVector4Neg(self.bv)]

\* a Vector4 whose components are the integers v divided by d
Vector4(x, y, z, w) == [v |-> << x, y, z, w >>, d |-> 1, nan |-> FALSE]

\* Rotor4::rotate_vec: the closed form of the sandwich product, with the
\* four trivector terms, then the product with the conjugate p
rotate_vec(self, vec) ==
    LET vx == vec.v[1]
        vy == vec.v[2]
        vz == vec.v[3]
        vw == vec.v[4]
        b == self.bv
        x == self.s * vx + b.xy * vy + b.xz * vz + b.xw * vw
        y == self.s * vy - b.xy * vx + b.yz * vz + b.yw * vw
        z == self.s * vz - b.xz * vx - b.yz * vy + b.zw * vw
        w == self.s * vw - b.xw * vx - b.yw * vy - b.zw * vz
        xyz == b.xy * vz - b.xz * vy + b.yz * vx
        yzw == b.yz * vw - b.yw * vz + b.zw * vy
        zwx == b.xz * vw - b.xw * vz + b.zw * vx
        wxy == b.xy * vw - b.xw * vy + b.yw * vx
        p == Rotor4Neg(self)
        q == p.bv
    IN [v |-> << x * p.s - y * q.xy - z * q.xz - w * q.xw
                    - xyz * q.yz - wxy * q.yw - zwx * q.zw,
                 y * p.s + x * q.xy - z * q.yz - w * q.yw
                    + xyz * q.xz + wxy * q.xw - yzw * q.zw,
                 z * p.s + x * q.xz + y * q.yz - w * q.zw
                    - xyz * q.xy + zwx * q.xw + yzw * q.yw,
                 w * p.s + x * q.xw + y * q.yw + z * q.zw
                    - wxy * q.xy - zwx * q.xz - yzw * q.yz >>,
        d |-> vec.d * self.n2,
        nan |-> vec.nan \/ self.nan]

\* Rotor4::from_rotation_between: scalar 1 + to.dot(from), plane part
\* wedge(to, from), then normalized
RotationBetweenRaw(from, to) ==
    [s |-> from.d * to.d + Dot(to.v, from.v),
     bv |-> wedge(to.v, from.v),
     n2 |-> (from.d * to.d) * (from.d * to.d),
     nan |-> from.nan \/ to.nan]

from_rotation_between(from, to) ==
    Rotor4_normalized(RotationBetweenRaw(from, to))

\* f32::sin_cos of half the angle; angles are whole numbers of half turns
\* (TAU is two of them), so half an angle is a whole number of quarter turns
TAU == 2

Sin(quarter_turns) ==
    CASE quarter_turns % 4 = 0 -> 0
      [] quarter_turns % 4 = 1 -> 1
      [] quarter_turns % 4 = 2 -> 0
      [] quarter_turns % 4 = 3 -> -1

Cos(quarter_turns) == Sin(quarter_turns + 1)

\* (variant: the plane is scaled by sin, not by -sin)
FromSinCosPlusSin(sin, cos, trig_d, plane, plane_d) ==
    Rotor4_normalized(
        [s |-> cos * plane_d,
         bv |-> BiVector4(plane.xy * sin, plane.xz * sin, plane.xw * sin,
                          plane.yz * sin, plane.yw * sin, plane.zw * sin),
         n2 |-> (trig_d * plane_d) * (trig_d * plane_d),
         nan |-> FALSE])

\* the body of Rotor4::from_angle_plane after sin_cos: scalar cos, plane
\* part plane * -sin, then normalized.  sin and cos are integers over
\* trig_d, the plane's components integers over plane_d.
FromSinCos(sin, cos, trig_d, plane, plane_d) ==
    Rotor4_normalized(
        [s |-> cos * plane_d,
         bv |-> BiVector4(plane.xy * (-sin), plane.xz * (-sin),
                          plane.xw * (-sin), plane.yz * (-sin),
                          plane.yw * (-sin), plane.zw * (-sin)),
         n2 |-> (trig_d * plane_d) * (trig_d * plane_d),
         nan |-> FALSE])

\* Rotor4::from_angle_plane
from_angle_plane(angle, plane) ==
    LET half_angle == angle
        sin == Sin(half_angle)
        cos == Cos(half_angle)
    IN FromSinCos(sin, cos, 1, plane, 1)

\* Rotor4::rotate_by: the geometric product self * other of the two
\* rotors, as the seven components of a Rotor4 hold it (the scalar and the
\* six plane components of the product)
rotate_by(self, other) ==
    LET a == self.bv
        b == other.bv
    IN [s |-> self.s * other.s - a.xy * b.xy - a.xz * b.xz - a.xw * b.xw
                - a.yz * b.yz - a.yw * b.yw - a.zw * b.zw,
        bv |-> BiVector4(
            self.s * b.xy + a.xy * other.s - a.xz * b.yz - a.xw * b.yw
                + a.yz * b.xz + a.yw * b.xw,
            self.s * b.xz + a.xy * b.yz + a.xz * other.s - a.xw * b.zw
                - a.yz * b.xy + a.zw * b.xw,
            self.s * b.xw + a.xy * b.yw + a.xz * b.zw + a.xw * other.s
                - a.yw * b.xy - a.zw * b.xz,
            self.s * b.yz - a.xy * b.xz + a.xz * b.xy + a.yz * other.s
                - a.yw * b.zw + a.zw * b.yw,
            self.s * b.yw - a.xy * b.xw + a.xw * b.xy + a.yz * b.zw
                + a.yw * other.s - a.zw * b.yz,
            self.s * b.zw - a.xz * b.xw + a.xw * b.xz - a.yz * b.yw
                + a.yw * b.yz + a.zw * other.s),
        n2 |-> self.n2 * other.n2,
        nan |-> self.nan \/ other.nan]

\* App::update: the camera rotor chained from the four angles, and the
\* camera's forward, right and up directions it gives
camera_rotation(angles) ==
    rotate_by(rotate_by(rotate_by(from_angle_plane(angles.yaw, ZX),
                                  from_angle_plane(angles.pitch, ZY)),
                        from_angle_plane(angles.weird_yaw, XW)),
              from_angle_plane(angles.weird_pitch, ZW))

CameraBasis(angles) ==
    LET rotation == camera_rotation(angles)
    IN [forward |-> rotate_vec(rotation, Vector4(0, 0, 1, 0)),
        right |-> rotate_vec(rotation, Vector4(1, 0, 0, 0)),
        up |-> rotate_vec(rotation, Vector4(0, 1, 0, 0))]

(***************************************************************************)
(* App::new                                                                 *)
(***************************************************************************)
AppNew ==
    /\ pc = "camera_rotation"
    /\ modifiers = [shift |-> FALSE]
    /\ camera = [pitch |-> 0, yaw |-> 0, weird_pitch |-> 0, weird_yaw |-> 0,
                 min_distance |-> F32(1), max_distance |-> F32(100000),
                 bounce_count |-> 5, sample_count |-> 1]
    /\ camera_uniform_buffer =
         [forward |-> Vector4(0, 0, 0, 0), right |-> Vector4(0, 0, 0, 0),
          up |-> Vector4(0, 0, 0, 0),
          min_distance |-> F32(0), max_distance |-> F32(0),
          bounce_count |-> 0, sample_count |-> 0]
    /\ camera_basis =
         [forward |-> Vector4(0, 0, 0, 0), right |-> Vector4(0, 0, 0, 0),
          up |-> Vector4(0, 0, 0, 0)]
    /\ hyper_spheres =
         << [center |-> << 0, 1, 0, 0 >>, radius |-> 1, material |-> 0] >>
    /\ hyper_sphere_names = << "Hyper Sphere" >>
    /\ hyper_spheres_storage_buffer =
         CreateBuffer(FirstId("hyper_spheres"), ZeroSphere)
    /\ hyper_spheres_storage_buffer_size = MinSize(SphereStride)
    /\ hyper_planes =
         << [point |-> << 0, 0, 0, 0 >>, normal |-> << 0, 1, 0, 0 >>,
             material |-> 1] >>
    /\ hyper_plane_names = << "Ground" >>
    /\ hyper_planes_storage_buffer =
         CreateBuffer(FirstId("hyper_planes"), ZeroPlane)
    /\ hyper_planes_storage_buffer_size = MinSize(PlaneStride)
    /\ objects_bind_group =
         [gen |-> 0, spheres |-> FirstId("hyper_spheres"),
          planes |-> FirstId("hyper_planes")]
    /\ materials = << [base_color |-> << 8, 4, 1 >>],
                      [base_color |-> << 1, 8, 3 >>] >>
    /\ materials_storage_buffer =
         CreateBuffer(FirstId("materials"), ZeroMaterial)
    /\ materials_storage_buffer_size = MinSize(MaterialStride)
    /\ materials_bind_group = [gen |-> 0, materials |-> FirstId("materials")]
    /\ dispatched = << >>
    /\ sphere_adds = 0
    /\ sphere_deletes = 0

\* no call of the algebra is under way in the frame loop
NoCall == [fn |-> "none"]

Init == AppNew /\ calc = NoCall

(***************************************************************************)
(* The start of App::update: the camera rotor is chained from the four      *)
(* angles as they stand, and forward, right and up are derived from it.     *)
(***************************************************************************)
ComposeCamera ==
    /\ pc = "camera_rotation"
    /\ camera_basis' = CameraBasis(camera)
    /\ pc' = "camera_panel"
    /\ UNCHANGED << calc, modifiers, camera, camera_uniform_buffer, sphereVars, planeVars,
                    materials, gpuVars, dispatched, historyVars >>

(***************************************************************************)
(* The "Camera" section of the left panel.  When the section is shown each  *)
(* DragValue may leave a new value in its field, and the clamp that follows *)
(* each widget runs; when it is collapsed nothing in it runs.               *)
(***************************************************************************)
ClampMinDistance(written) == F32Max(written, F32(0))

ClampMaxDistance(written, min_distance) == F32Max(written, min_distance)

ClampCount(written) == U32Max(written, 1)

\* the f32 remainder: truncated, its sign is the dividend's
RustRem(a, b) == IF a >= 0 THEN a % b ELSE -((-a) % b)

\* (variant: the angle is left as the widget wrote it)
edit_angleNoWrap(written) == written

\* edit_angle, after the widget: %= TAU, += TAU, %= TAU
edit_angle(written) == RustRem(RustRem(written, TAU) + TAU, TAU)

AngleNames == {"pitch", "yaw", "weird_pitch", "weird_yaw"}

\* what drag_angle can leave in an angle
AngleInputs == -MaxAngle .. MaxAngle

\* values tells whether the distance and count widgets are used, angles
\* whether an angle widget is dragged (one widget is dragged at a time)
CameraSection(open, values, angles) ==
    /\ pc = "camera_panel"
    /\ \E min_written \in
              (IF values THEN DistanceInputs ELSE {}) \cup {camera.min_distance},
          max_written \in
              (IF values THEN DistanceInputs ELSE {}) \cup {camera.max_distance},
          bounces_written \in
              (IF values THEN CountInputs ELSE {}) \cup {camera.bounce_count},
          samples_written \in
              (IF values THEN CountInputs ELSE {}) \cup {camera.sample_count},
          dragged \in IF angles THEN AngleNames ELSE {"none"},
          angle_written \in IF angles THEN AngleInputs ELSE {0} :
         LET written(name) ==
                 IF angles /\ dragged = name THEN angle_written
                 ELSE camera[name]
         IN camera' =
              IF open
              THEN LET min_distance == ClampMinDistance(min_written)
                   IN [pitch |-> edit_angle(written("pitch")),
                       yaw |-> edit_angle(written("yaw")),
                       weird_pitch |-> edit_angle(written("weird_pitch")),
                       weird_yaw |-> edit_angle(written("weird_yaw")),
                       min_distance |-> min_distance,
                       max_distance |->
                           ClampMaxDistance(max_written, min_distance),
                       bounce_count |-> ClampCount(bounces_written),
                       sample_count |-> ClampCount(samples_written)]
              ELSE camera
    /\ pc' = "spheres_panel"
    /\ UNCHANGED << calc, modifiers, camera_basis, camera_uniform_buffer, sphereVars, planeVars, materials,
                    gpuVars, dispatched, historyVars >>

(***************************************************************************)
(* The "Hyper Spheres" section: the add button, then the delete buttons of  *)
(* the listed spheres, then the delete loop.                                *)
(***************************************************************************)
\* (variant: the index is read after the material is pushed)
AddHyperSphereIndexAfterPush(add) ==
    IF add
    THEN [materials |-> Append(materials, DefaultMaterial),
          objects |-> Append(hyper_spheres,
                             DefaultHyperSphere(Len(materials) + 1)),
          names |-> Append(hyper_sphere_names, "Default Hyper Sphere")]
    ELSE [materials |-> materials, objects |-> hyper_spheres,
          names |-> hyper_sphere_names]

\* (variant: no material is created for the new sphere)
AddHyperSphereNoMaterial(add) ==
    IF add
    THEN [materials |-> materials,
          objects |-> Append(hyper_spheres,
                             DefaultHyperSphere(Len(materials))),
          names |-> Append(hyper_sphere_names, "Default Hyper Sphere")]
    ELSE [materials |-> materials, objects |-> hyper_spheres,
          names |-> hyper_sphere_names]

AddHyperSphere(add) ==
    IF add
    THEN [materials |-> Append(materials, DefaultMaterial),
          objects |-> Append(hyper_spheres,
                             DefaultHyperSphere(Len(materials))),
          names |-> Append(hyper_sphere_names, "Default Hyper Sphere")]
    ELSE [materials |-> materials, objects |-> hyper_spheres,
          names |-> hyper_sphere_names]

\* what the "Radius: " DragValue of a listed hyper sphere can leave in it
RadiusInputs == -1 .. MaxRadius

\* the listing loop with the radius widget of the sphere at index target
\* dragged (no widget is dragged when target is -1)
EditRadius(objects, target, written) ==
    [i \in 1 .. Len(objects) |->
        IF i - 1 = target THEN [objects[i] EXCEPT !.radius = written]
        ELSE objects[i]]

\* edits tells whether a radius widget is dragged (one widget at a time)
SpheresSection(open, edits) ==
    /\ pc = "spheres_panel"
    /\ \E clicked \in BOOLEAN :
         LET add == open /\ clicked /\ Len(materials) < MaxMaterials
             added == AddHyperSphere(add)
         IN \E flagged \in SUBSET (0 .. Len(added.objects) - 1),
               target \in (IF open /\ edits
                           THEN 0 .. Len(added.objects) - 1 ELSE {})
                              \cup {-1},
               written \in IF open /\ edits THEN RadiusInputs ELSE {0} :
              LET to_delete == IF open THEN flagged ELSE {}
                  listed == EditRadius(added.objects, target, written)
                  after == DeleteLoop(listed, added.names, to_delete, 0)
              IN /\ materials' = added.materials
                 /\ hyper_spheres' = after.objects
                 /\ hyper_sphere_names' = after.names
                 /\ sphere_adds' = sphere_adds + (IF add THEN 1 ELSE 0)
                 /\ sphere_deletes' = sphere_deletes
                        + (Len(added.objects) - Len(after.objects))
                 /\ pc' = IF after.panicked THEN "panicked" ELSE "planes_panel"
    /\ UNCHANGED << calc, modifiers, cameraVars, planeVars, gpuVars, dispatched >>

(***************************************************************************)
(* The "Hyper Planes" section.                                              *)
(***************************************************************************)
\* (variant: the name is not pushed)
AddHyperPlaneNoName(add) ==
    IF add
    THEN [materials |-> Append(materials, DefaultMaterial),
          objects |-> Append(hyper_planes, DefaultHyperPlane(Len(materials))),
          names |-> hyper_plane_names]
    ELSE [materials |-> materials, objects |-> hyper_planes,
          names |-> hyper_plane_names]

AddHyperPlane(add) ==
    IF add
    THEN [materials |-> Append(materials, DefaultMaterial),
          objects |-> Append(hyper_planes, DefaultHyperPlane(Len(materials))),
          names |-> Append(hyper_plane_names, "Default Hyper Plane")]
    ELSE [materials |-> materials, objects |-> hyper_planes,
          names |-> hyper_plane_names]

PlanesSection(open) ==
    /\ pc = "planes_panel"
    /\ \E clicked \in BOOLEAN :
         LET add == open /\ clicked /\ Len(materials) < MaxMaterials
             added == AddHyperPlane(add)
         IN \E flagged \in SUBSET (0 .. Len(added.objects) - 1) :
              LET to_delete == IF open THEN flagged ELSE {}
                  after == DeleteLoop(added.objects, added.names, to_delete, 0)
              IN /\ materials' = added.materials
                 /\ hyper_planes' = after.objects
                 /\ hyper_plane_names' = after.names
                 /\ pc' = IF after.panicked THEN "panicked" ELSE "upload_camera"
    /\ UNCHANGED << calc, modifiers, cameraVars, sphereVars, gpuVars, dispatched, historyVars >>

(***************************************************************************)
(* "Upload camera": the camera record is written to the uniform buffer.     *)
(***************************************************************************)
\* (variant: forward, right and up are derived again from the angles as
\* they stand at the upload)
UploadCameraRecomputes ==
    /\ pc = "upload_camera"
    /\ camera_uniform_buffer' =
         [forward |-> CameraBasis(camera).forward,
          right |-> CameraBasis(camera).right,
          up |-> CameraBasis(camera).up,
          min_distance |-> camera.min_distance,
          max_distance |-> camera.max_distance,
          bounce_count |-> camera.bounce_count,
          sample_count |-> camera.sample_count]
    /\ pc' = "upload_objects"
    /\ UNCHANGED << calc, modifiers, camera, camera_basis, sphereVars, planeVars,
                    materials, gpuVars, dispatched, historyVars >>

UploadCamera ==
    /\ pc = "upload_camera"
    /\ camera_uniform_buffer' =
         [forward |-> camera_basis.forward, right |-> camera_basis.right,
          up |-> camera_basis.up,
          min_distance |-> camera.min_distance,
          max_distance |-> camera.max_distance,
          bounce_count |-> camera.bounce_count,
          sample_count |-> camera.sample_count]
    /\ pc' = "upload_objects"
    /\ UNCHANGED << calc, modifiers, camera, camera_basis, sphereVars, planeVars, materials, gpuVars,
                    dispatched, historyVars >>

(***************************************************************************)
(* "Upload objects": both object mirrors are reconciled, then the objects   *)
(* bind group is rebuilt if either was reallocated.                         *)
(***************************************************************************)
\* device.create_bind_group for the objects bind group
CreateObjectsBindGroup(gen, spheres_buffer, planes_buffer) ==
    [gen |-> gen, spheres |-> spheres_buffer.id, planes |-> planes_buffer.id]

\* (variant: the hyper planes block forgets to set the flag)
ObjectsInvalidatedSpheresOnly(spheres, planes) == spheres.invalidated

\* (variant: the flag starts out true)
ObjectsInvalidatedAlways(spheres, planes) == TRUE

\* the value of bind_group_invalidated after both upload blocks
ObjectsInvalidated(spheres, planes) ==
    spheres.invalidated \/ planes.invalidated

UploadObjects ==
    /\ pc = "upload_objects"
    /\ LET spheres == Reconcile(hyper_spheres_storage_buffer,
                                hyper_spheres_storage_buffer_size,
                                Serialize(hyper_spheres, ZeroSphere),
                                SphereStride)
           planes == Reconcile(hyper_planes_storage_buffer,
                               hyper_planes_storage_buffer_size,
                               Serialize(hyper_planes, ZeroPlane),
                               PlaneStride)
           bind_group_invalidated == ObjectsInvalidated(spheres, planes)
       IN /\ hyper_spheres_storage_buffer' = spheres.buffer
          /\ hyper_spheres_storage_buffer_size' = spheres.size
          /\ hyper_planes_storage_buffer' = planes.buffer
          /\ hyper_planes_storage_buffer_size' = planes.size
          /\ objects_bind_group' =
               IF bind_group_invalidated
               THEN CreateObjectsBindGroup(objects_bind_group.gen + 1,
                                           spheres.buffer, planes.buffer)
               ELSE objects_bind_group
    /\ pc' = "upload_materials"
    /\ UNCHANGED << calc, modifiers, cameraVars, sphereVars, planeVars, materials,
                    materials_storage_buffer, materials_storage_buffer_size,
                    materials_bind_group, dispatched, historyVars >>

(***************************************************************************)
(* "Upload the materials": the materials mirror is reconciled; the          *)
(* materials bind group is rebuilt in the reallocation branch.              *)
(***************************************************************************)
CreateMaterialsBindGroup(gen, buffer) ==
    [gen |-> gen, materials |-> buffer.id]

UploadMaterials ==
    /\ pc = "upload_materials"
    /\ LET mats == Reconcile(materials_storage_buffer,
                             materials_storage_buffer_size,
                             Serialize(materials, ZeroMaterial),
                             MaterialStride)
       IN /\ materials_storage_buffer' = mats.buffer
          /\ materials_storage_buffer_size' = mats.size
          /\ materials_bind_group' =
               IF mats.invalidated
               THEN CreateMaterialsBindGroup(materials_bind_group.gen + 1,
                                             mats.buffer)
               ELSE materials_bind_group
    /\ pc' = "dispatch"
    /\ UNCHANGED << calc, modifiers, cameraVars, sphereVars, planeVars, materials,
                    hyper_spheres_storage_buffer,
                    hyper_spheres_storage_buffer_size,
                    hyper_planes_storage_buffer,
                    hyper_planes_storage_buffer_size, objects_bind_group,
                    dispatched, historyVars >>

(***************************************************************************)
(* "do the ray tracing": the compute pass is bound to the camera, objects   *)
(* and materials bind groups and dispatched.  dispatched keeps what the     *)
(* kernel was given: the camera record and the buffers behind the groups.   *)
(***************************************************************************)
Dispatch ==
    /\ pc = "dispatch"
    /\ dispatched' = << [camera |-> camera_uniform_buffer,
                         spheres |-> objects_bind_group.spheres,
                         planes |-> objects_bind_group.planes,
                         materials |-> materials_bind_group.materials] >>
    /\ pc' = "input"
    /\ UNCHANGED << calc, modifiers, cameraVars, sphereVars, planeVars, materials, gpuVars,
                    historyVars >>

(***************************************************************************)
(* The end of App::update: unless a widget wants the keyboard, the arrow    *)
(* keys held down turn the camera by camera_rotation_speed * ts, the 4D     *)
(* angles while shift is held and pitch and yaw otherwise.  A frame is      *)
(* taken to last long enough for one unit of angle.                         *)
(***************************************************************************)
ArrowKeys == {"ArrowUp", "ArrowDown", "ArrowLeft", "ArrowRight"}

\* (variant: the arrow keys turn pitch and yaw whether or not shift is held)
TurnedIgnoresShift(shift, keys) ==
    LET delta(plus, minus) ==
            (IF plus \in keys THEN 1 ELSE 0) - (IF minus \in keys THEN 1 ELSE 0)
    IN [camera EXCEPT
             !.pitch = @ + delta("ArrowUp", "ArrowDown"),
             !.yaw = @ + delta("ArrowRight", "ArrowLeft")]

Turned(shift, keys) ==
    LET delta(plus, minus) ==
            (IF plus \in keys THEN 1 ELSE 0) - (IF minus \in keys THEN 1 ELSE 0)
    IN IF shift
       THEN [camera EXCEPT
                !.weird_pitch = @ + delta("ArrowUp", "ArrowDown"),
                !.weird_yaw = @ + delta("ArrowRight", "ArrowLeft")]
       ELSE [camera EXCEPT
                !.pitch = @ + delta("ArrowUp", "ArrowDown"),
                !.yaw = @ + delta("ArrowRight", "ArrowLeft")]

KeyboardInput(wants_keyboard_input, shift, keys) ==
    /\ pc = "input"
    /\ LET turned == IF wants_keyboard_input THEN camera
                     ELSE Turned(shift, keys)
       IN /\ \A name \in AngleNames : turned[name] \in -MaxAngle .. MaxAngle
          /\ camera' = turned
    /\ modifiers' = [shift |-> shift]
    /\ pc' = "camera_rotation"
    /\ UNCHANGED << calc, camera_basis, camera_uniform_buffer, sphereVars,
                    planeVars, materials, gpuVars, dispatched, historyVars >>

(***************************************************************************)
(* The frame loop.  The camera fields and the scene collections do not      *)
(* read each other, so each is explored with the other's editor section     *)
(* left collapsed: Spec is the frame loop with the user working in the      *)
(* object sections, CameraSpec the frame loop with the user working in the  *)
(* camera section.  Every step of the frame runs in both.                   *)
(***************************************************************************)
CameraPanel == \E open \in BOOLEAN : CameraSection(open, TRUE, FALSE)

CameraPanelCollapsed == CameraSection(FALSE, FALSE, FALSE)

CameraAnglesPanel == \E open \in BOOLEAN : CameraSection(open, FALSE, TRUE)

KeyboardIdle == KeyboardInput(FALSE, FALSE, {})

KeyboardHeld ==
    \E wants_keyboard_input \in BOOLEAN, shift \in BOOLEAN,
       keys \in SUBSET ArrowKeys :
        KeyboardInput(wants_keyboard_input, shift, keys)

SpheresPanel == \E open \in BOOLEAN : SpheresSection(open, FALSE)

SpheresPanelCollapsed == SpheresSection(FALSE, FALSE)

SpheresEditPanel == \E open \in BOOLEAN : SpheresSection(open, TRUE)

PlanesPanel == \E open \in BOOLEAN : PlanesSection(open)

PlanesPanelCollapsed == PlanesSection(FALSE)

Next ==
    \/ ComposeCamera
    \/ KeyboardIdle
    \/ CameraPanelCollapsed
    \/ SpheresPanel
    \/ PlanesPanel
    \/ UploadCamera
    \/ UploadObjects
    \/ UploadMaterials
    \/ Dispatch

Spec == Init /\ [][Next]_vars

CameraNext ==
    \/ ComposeCamera
    \/ KeyboardIdle
    \/ CameraPanel
    \/ SpheresPanelCollapsed
    \/ PlanesPanelCollapsed
    \/ UploadCamera
    \/ UploadObjects
    \/ UploadMaterials
    \/ Dispatch

CameraSpec == Init /\ [][CameraNext]_vars

\* the frame loop with the user working in the hyper spheres section,
\* the radius widgets included
SphereEditNext ==
    \/ ComposeCamera
    \/ KeyboardIdle
    \/ CameraPanelCollapsed
    \/ SpheresEditPanel
    \/ PlanesPanelCollapsed
    \/ UploadCamera
    \/ UploadObjects
    \/ UploadMaterials
    \/ Dispatch

SphereEditSpec == Init /\ [][SphereEditNext]_vars

\* the frame loop with the user turning the camera: the angle widgets of
\* the camera section and the arrow keys
OrientationNext ==
    \/ ComposeCamera
    \/ KeyboardHeld
    \/ CameraAnglesPanel
    \/ SpheresPanelCollapsed
    \/ PlanesPanelCollapsed
    \/ UploadCamera
    \/ UploadObjects
    \/ UploadMaterials
    \/ Dispatch

OrientationSpec == Init /\ [][OrientationNext]_vars

(***************************************************************************)
(* The plane algebra and the rotor on their own: one call of one function   *)
(* on inputs drawn from bounded sets.  calc holds the function called, its  *)
(* arguments and, once the call has returned, its result.                   *)
(***************************************************************************)
frameVars == << pc, cameraVars, sphereVars, planeVars, materials, gpuVars,
                dispatched, historyVars, modifiers >>

Components == -MaxComponent .. MaxComponent

BiVectorInputs ==
    { BiVector4(xy, xz, xw, yz, yw, zw) :
        xy \in Components, xz \in Components, xw \in Components,
        yz \in Components, yw \in Components, zw \in Components }

RotorInputs == { Rotor4(s, bv) : s \in Components, bv \in BiVectorInputs }

\* the four axes and one vector off every axis
VectorInputs ==
    { Vector4(1, 0, 0, 0), Vector4(0, 1, 0, 0), Vector4(0, 0, 1, 0),
      Vector4(0, 0, 0, 1), Vector4(1, 1, 1, 1) }

\* unit vectors: integer components over UnitDivisor
UnitVectorInputs ==
    { [v |-> << x, y, z, w >>, d |-> UnitDivisor, nan |-> FALSE] :
        << x, y, z, w >> \in
          { t \in (-UnitDivisor .. UnitDivisor) \X (-UnitDivisor .. UnitDivisor)
                    \X (-UnitDivisor .. UnitDivisor)
                    \X (-UnitDivisor .. UnitDivisor) :
              Dot(t, t) = UnitDivisor * UnitDivisor } }

\* unit planes: integer components over UnitDivisor
UnitPlaneInputs ==
    { b \in { BiVector4(t[1], t[2], t[3], t[4], t[5], t[6]) :
                t \in [1 .. 6 -> -UnitDivisor .. UnitDivisor] } :
        BiVector4_sqr_length(b) = UnitDivisor * UnitDivisor }

\* what sin_cos returns for half an angle: a point of the unit circle,
\* integer sin and cos over TrigDivisor
SinCosInputs ==
    { sc \in [sin : -TrigDivisor .. TrigDivisor,
              cos : -TrigDivisor .. TrigDivisor] :
        sc.sin * sc.sin + sc.cos * sc.cos = TrigDivisor * TrigDivisor }

\* a listed sequence of n records and the sequence of their names: the
\* record at index i is i, its name "name" of i
ListedObjects(n) == [i \in 1 .. n |-> i - 1]

ListedNames(n) == [i \in 1 .. n |-> << "name", i - 1 >>]

AngleSets ==
    [pitch : AngleInputs, yaw : AngleInputs,
     weird_pitch : AngleInputs, weird_yaw : AngleInputs]

AlgebraInit ==
    /\ AppNew
    /\ \/ calc \in [fn : {"neg"}, name : UnitPlaneNames, done : {FALSE}]
       \/ calc \in [fn : {"eq"}, a : UnitPlaneNames, b : UnitPlaneNames,
                    done : {FALSE}]
       \/ calc \in [fn : {"BiVector4::normalized"}, self : BiVectorInputs,
                    done : {FALSE}]
       \/ calc \in [fn : {"Rotor4::normalized"}, self : RotorInputs,
                    done : {FALSE}]
       \/ calc \in [fn : {"rotate_vec"}, self : RotorInputs, v : VectorInputs,
                    done : {FALSE}]
       \/ calc \in [fn : {"rotate_by"}, self : RotorInputs,
                    other : {"IDENTITY", "conjugate"}, done : {FALSE}]
       \/ calc \in [fn : {"from_rotation_between"}, from : UnitVectorInputs,
                    to : UnitVectorInputs, done : {FALSE}]
       \/ calc \in [fn : {"camera_rotation"}, angles : AngleSets,
                    done : {FALSE}]
       \/ calc \in [fn : {"from_angle_plane"}, half_angle : SinCosInputs,
                    plane : UnitPlaneInputs, done : {FALSE}]
       \/ \E n \in 0 .. MaxListed :
            calc \in [fn : {"delete"}, objects : {ListedObjects(n)},
                      names : {ListedNames(n)},
                      to_delete : SUBSET (0 .. n - 1), done : {FALSE}]

\* -BiVector4::<name>
NegatePlane ==
    /\ calc.fn = "neg" /\ ~calc.done
    /\ calc' = [fn |-> "neg", name |-> calc.name, done |-> TRUE,
                out |-> BiVector4Neg(UnitPlane(calc.name))]
    /\ UNCHANGED frameVars

\* the comparison of two of the constants, component by component
ComparePlanes ==
    /\ calc.fn = "eq" /\ ~calc.done
    /\ calc' = [fn |-> "eq", a |-> calc.a, b |-> calc.b, done |-> TRUE,
                out |-> (UnitPlane(calc.a) = UnitPlane(calc.b))]
    /\ UNCHANGED frameVars

NormalizePlane ==
    /\ calc.fn = "BiVector4::normalized" /\ ~calc.done
    /\ calc' = [fn |-> calc.fn, self |-> calc.self, done |-> TRUE,
                out |-> BiVector4_normalized(calc.self)]
    /\ UNCHANGED frameVars

NormalizeRotor ==
    /\ calc.fn = "Rotor4::normalized" /\ ~calc.done
    /\ calc' = [fn |-> calc.fn, self |-> calc.self, done |-> TRUE,
                out |-> Rotor4_normalized(calc.self)]
    /\ UNCHANGED frameVars

RotateVec ==
    /\ calc.fn = "rotate_vec" /\ ~calc.done
    /\ calc' = [fn |-> calc.fn, self |-> calc.self, v |-> calc.v,
                done |-> TRUE, out |-> rotate_vec(calc.self, calc.v)]
    /\ UNCHANGED frameVars

\* self.rotate_by(IDENTITY), or the normalized self composed with its
\* conjugate
RotateBy ==
    /\ calc.fn = "rotate_by" /\ ~calc.done
    /\ calc' = [fn |-> calc.fn, self |-> calc.self, other |-> calc.other,
                done |-> TRUE,
                out |-> IF calc.other = "IDENTITY"
                        THEN rotate_by(calc.self, IDENTITY)
                        ELSE LET unit == Rotor4_normalized(calc.self)
                             IN rotate_by(unit, Rotor4Neg(unit))]
    /\ UNCHANGED frameVars

\* from_rotation_between(from, to), and the rotor it returns applied to from
RotationBetween ==
    /\ calc.fn = "from_rotation_between" /\ ~calc.done
    /\ calc' = [fn |-> calc.fn, from |-> calc.from, to |-> calc.to,
                done |-> TRUE,
                raw |-> RotationBetweenRaw(calc.from, calc.to),
                out |-> from_rotation_between(calc.from, calc.to),
                image |-> rotate_vec(
                    from_rotation_between(calc.from, calc.to), calc.from)]
    /\ UNCHANGED frameVars

\* the camera rotor of four angles and the basis derived from it
ComposeAngles ==
    /\ calc.fn = "camera_rotation" /\ ~calc.done
    /\ calc' = [fn |-> calc.fn, angles |-> calc.angles, done |-> TRUE,
                rotation |-> camera_rotation(calc.angles),
                out |-> CameraBasis(calc.angles)]
    /\ UNCHANGED frameVars

\* from_angle_plane of an angle whose half has the given sine and cosine
FromAnglePlane ==
    /\ calc.fn = "from_angle_plane" /\ ~calc.done
    /\ calc' = [fn |-> calc.fn, half_angle |-> calc.half_angle,
                plane |-> calc.plane, done |-> TRUE,
                out |-> FromSinCos(calc.half_angle.sin, calc.half_angle.cos,
                                   TrigDivisor, calc.plane, UnitDivisor)]
    /\ UNCHANGED frameVars

\* the delete loop of a panel on the indices flagged in its listing
DeleteFlagged ==
    /\ calc.fn = "delete" /\ ~calc.done
    /\ calc' = [fn |-> calc.fn, objects |-> calc.objects,
                names |-> calc.names, to_delete |-> calc.to_delete,
                done |-> TRUE,
                out |-> DeleteLoop(calc.objects, calc.names,
                                   calc.to_delete, 0)]
    /\ UNCHANGED frameVars

AlgebraNext ==
    \/ DeleteFlagged
    \/ FromAnglePlane
    \/ NegatePlane
    \/ ComparePlanes
    \/ NormalizePlane
    \/ NormalizeRotor
    \/ RotateVec
    \/ RotateBy
    \/ RotationBetween
    \/ ComposeAngles

AlgebraSpec == AlgebraInit /\ [][AlgebraNext]_vars

(***************************************************************************)
(*                              Properties                                  *)
(***************************************************************************)
\* the serialized payloads of the current sequences
SpheresPayload == Serialize(hyper_spheres, ZeroSphere)
PlanesPayload == Serialize(hyper_planes, ZeroPlane)
MaterialsPayload == Serialize(materials, ZeroMaterial)

SpheresPayloadLen == ByteLen(SpheresPayload, SphereStride)
PlanesPayloadLen == ByteLen(PlanesPayload, PlaneStride)
MaterialsPayloadLen == ByteLen(MaterialsPayload, MaterialStride)

\* C1: at every kernel dispatch each bind group references the current
\* allocation of every mirror it binds, so what the kernel is given are the
\* current allocations.
BindGroupsCurrentAtDispatch ==
    /\ pc = "dispatch" =>
         /\ objects_bind_group.spheres = hyper_spheres_storage_buffer.id
         /\ objects_bind_group.planes = hyper_planes_storage_buffer.id
         /\ materials_bind_group.materials = materials_storage_buffer.id
    /\ (pc = "camera_panel" /\ dispatched # << >>) =>
         /\ dispatched[1].spheres = hyper_spheres_storage_buffer.id
         /\ dispatched[1].planes = hyper_planes_storage_buffer.id
         /\ dispatched[1].materials = materials_storage_buffer.id

\* C1 witness: about to dispatch in a frame that reallocated only the hyper
\* planes mirror (the previous dispatch was given another planes allocation
\* and the same spheres allocation).
PlanesReallocatedBeforeDispatch ==
    /\ pc = "dispatch"
    /\ dispatched # << >>
    /\ dispatched[1].planes # hyper_planes_storage_buffer.id
    /\ dispatched[1].spheres = hyper_spheres_storage_buffer.id
    /\ objects_bind_group.planes = hyper_planes_storage_buffer.id

\* C2: the tracked capacity of each of the three mirrors never decreases.
CapacityNeverDecreases ==
    [][/\ hyper_spheres_storage_buffer_size'
            >= hyper_spheres_storage_buffer_size
       /\ hyper_planes_storage_buffer_size' >= hyper_planes_storage_buffer_size
       /\ materials_storage_buffer_size' >= materials_storage_buffer_size]_vars

\* C2 witness: after reconciliation, deletions have left the serialized
\* spheres smaller than the capacity the mirror keeps.
PayloadBelowCapacity ==
    /\ pc = "dispatch"
    /\ sphere_deletes > 0
    /\ SpheresPayloadLen < hyper_spheres_storage_buffer_size

\* C3: a bind group is rebuilt in a step if and only if the capacity of a
\* mirror it references increased in that step: the objects bind group
\* exactly when the spheres or the planes capacity grew, the materials bind
\* group exactly when the materials capacity grew.
RebuiltIffCapacityGrew ==
    [][/\ (objects_bind_group' # objects_bind_group) <=>
            \/ hyper_spheres_storage_buffer_size'
                 > hyper_spheres_storage_buffer_size
            \/ hyper_planes_storage_buffer_size'
                 > hyper_planes_storage_buffer_size
       /\ (materials_bind_group' # materials_bind_group) <=>
            materials_storage_buffer_size' > materials_storage_buffer_size]_vars

\* C3 witness: a frame without growth after frames with growth: both bind
\* groups have been rebuilt before, and this frame's dispatch is given the
\* allocations the previous one was given.
NoGrowthFrameAfterRebuilds ==
    /\ pc = "dispatch"
    /\ objects_bind_group.gen > 0
    /\ materials_bind_group.gen > 0
    /\ dispatched # << >>
    /\ dispatched[1].spheres = objects_bind_group.spheres
    /\ dispatched[1].planes = objects_bind_group.planes
    /\ dispatched[1].materials = materials_bind_group.materials

\* C4: when a payload is larger than the tracked capacity the upload step
\* replaces the allocation by a new one holding the payload and tracks
\* exactly the payload's size; an allocation is replaced only in that case.
ExactFitReallocation ==
    [][/\ (pc = "upload_objects" /\ SpheresPayloadLen
                > hyper_spheres_storage_buffer_size) =>
            /\ hyper_spheres_storage_buffer'.id
                 # hyper_spheres_storage_buffer.id
            /\ hyper_spheres_storage_buffer'.data = SpheresPayload
            /\ hyper_spheres_storage_buffer_size' = SpheresPayloadLen
       /\ (pc = "upload_objects" /\ PlanesPayloadLen
                > hyper_planes_storage_buffer_size) =>
            /\ hyper_planes_storage_buffer'.id # hyper_planes_storage_buffer.id
            /\ hyper_planes_storage_buffer'.data = PlanesPayload
            /\ hyper_planes_storage_buffer_size' = PlanesPayloadLen
       /\ (pc = "upload_materials" /\ MaterialsPayloadLen
                > materials_storage_buffer_size) =>
            /\ materials_storage_buffer'.id # materials_storage_buffer.id
            /\ materials_storage_buffer'.data = MaterialsPayload
            /\ materials_storage_buffer_size' = MaterialsPayloadLen
       /\ (hyper_spheres_storage_buffer'.id # hyper_spheres_storage_buffer.id)
            => (pc = "upload_objects" /\ SpheresPayloadLen
                    > hyper_spheres_storage_buffer_size)
       /\ (hyper_planes_storage_buffer'.id # hyper_planes_storage_buffer.id)
            => (pc = "upload_objects" /\ PlanesPayloadLen
                    > hyper_planes_storage_buffer_size)
       /\ (materials_storage_buffer'.id # materials_storage_buffer.id)
            => (pc = "upload_materials" /\ MaterialsPayloadLen
                    > materials_storage_buffer_size)]_vars

\* C4 witness: each mirror has been reallocated and tracks exactly the size
\* of the payload it holds.
ReallocatedToExactFit ==
    /\ pc = "dispatch"
    /\ hyper_spheres_storage_buffer.id # FirstId("hyper_spheres")
    /\ hyper_spheres_storage_buffer_size = SpheresPayloadLen
    /\ hyper_planes_storage_buffer.id # FirstId("hyper_planes")
    /\ hyper_planes_storage_buffer_size = PlanesPayloadLen
    /\ materials_storage_buffer.id # FirstId("materials")
    /\ materials_storage_buffer_size = MaterialsPayloadLen

\* the first n cells of a buffer's data
Prefix(data, n) == SubSeq(data, 1, n)

\* C5 (as claimed): when a payload fits the tracked capacity the upload step
\* writes it at offset 0 and leaves the allocation, the tracked capacity and
\* the dependent bind group unchanged.
FitLeavesBindGroupUnchanged ==
    [][/\ (pc = "upload_objects" /\ SpheresPayloadLen
                <= hyper_spheres_storage_buffer_size) =>
            /\ Prefix(hyper_spheres_storage_buffer'.data, Len(SpheresPayload))
                 = SpheresPayload
            /\ hyper_spheres_storage_buffer'.id
                 = hyper_spheres_storage_buffer.id
            /\ hyper_spheres_storage_buffer_size'
                 = hyper_spheres_storage_buffer_size
            /\ objects_bind_group' = objects_bind_group
       /\ (pc = "upload_objects" /\ PlanesPayloadLen
                <= hyper_planes_storage_buffer_size) =>
            /\ Prefix(hyper_planes_storage_buffer'.data, Len(PlanesPayload))
                 = PlanesPayload
            /\ hyper_planes_storage_buffer'.id = hyper_planes_storage_buffer.id
            /\ hyper_planes_storage_buffer_size'
                 = hyper_planes_storage_buffer_size
            /\ objects_bind_group' = objects_bind_group
       /\ (pc = "upload_materials" /\ MaterialsPayloadLen
                <= materials_storage_buffer_size) =>
            /\ Prefix(materials_storage_buffer'.data, Len(MaterialsPayload))
                 = MaterialsPayload
            /\ materials_storage_buffer'.id = materials_storage_buffer.id
            /\ materials_storage_buffer_size' = materials_storage_buffer_size
            /\ materials_bind_group' = materials_bind_group]_vars

\* C5 (amended): when a payload fits the tracked capacity the upload step
\* writes it at offset 0 and leaves the allocation and the tracked capacity
\* unchanged, and the dependent bind group still binds that allocation; the
\* materials bind group is unchanged, and the objects bind group is
\* unchanged when the payload of the other object mirror fits as well (it
\* is rebuilt when the other mirror is reallocated in the same frame).
FitLeavesBindingUnchanged ==
    [][/\ (pc = "upload_objects" /\ SpheresPayloadLen
                <= hyper_spheres_storage_buffer_size) =>
            /\ Prefix(hyper_spheres_storage_buffer'.data, Len(SpheresPayload))
                 = SpheresPayload
            /\ hyper_spheres_storage_buffer'.id
                 = hyper_spheres_storage_buffer.id
            /\ hyper_spheres_storage_buffer_size'
                 = hyper_spheres_storage_buffer_size
            /\ objects_bind_group'.spheres = objects_bind_group.spheres
            /\ objects_bind_group'.spheres = hyper_spheres_storage_buffer'.id
       /\ (pc = "upload_objects" /\ PlanesPayloadLen
                <= hyper_planes_storage_buffer_size) =>
            /\ Prefix(hyper_planes_storage_buffer'.data, Len(PlanesPayload))
                 = PlanesPayload
            /\ hyper_planes_storage_buffer'.id = hyper_planes_storage_buffer.id
            /\ hyper_planes_storage_buffer_size'
                 = hyper_planes_storage_buffer_size
            /\ objects_bind_group'.planes = objects_bind_group.planes
            /\ objects_bind_group'.planes = hyper_planes_storage_buffer'.id
       /\ (/\ pc = "upload_objects"
           /\ SpheresPayloadLen <= hyper_spheres_storage_buffer_size
           /\ PlanesPayloadLen <= hyper_planes_storage_buffer_size) =>
            objects_bind_group' = objects_bind_group
       /\ (pc = "upload_materials" /\ MaterialsPayloadLen
                <= materials_storage_buffer_size) =>
            /\ Prefix(materials_storage_buffer'.data, Len(MaterialsPayload))
                 = MaterialsPayload
            /\ materials_storage_buffer'.id = materials_storage_buffer.id
            /\ materials_storage_buffer_size' = materials_storage_buffer_size
            /\ materials_bind_group' = materials_bind_group]_vars

\* C5 witness: the spheres payload was written in place into the first
\* allocation in a frame in which the planes mirror was reallocated and the
\* objects bind group rebuilt.
WrittenInPlaceWhileOtherGrew ==
    /\ pc = "upload_materials"
    /\ hyper_spheres_storage_buffer.id = FirstId("hyper_spheres")
    /\ hyper_spheres_storage_buffer.data = SpheresPayload
    /\ hyper_planes_storage_buffer.id # FirstId("hyper_planes")
    /\ dispatched # << >>
    /\ dispatched[1].planes # hyper_planes_storage_buffer.id
    /\ objects_bind_group.gen > 0
    /\ objects_bind_group.spheres = FirstId("hyper_spheres")

\* C6 (as claimed): after reconciliation the contents of each mirror are
\* identical to a mirror rebuilt from scratch from the current sequence.
MirrorEqualsRebuilt ==
    /\ pc \in {"upload_materials", "dispatch"} =>
         /\ hyper_spheres_storage_buffer.data = SpheresPayload
         /\ hyper_planes_storage_buffer.data = PlanesPayload
    /\ pc = "dispatch" => materials_storage_buffer.data = MaterialsPayload

\* C6 (amended): after reconciliation each mirror begins with the
\* serialization of the current sequence (the count header equal to the
\* current length, then the records in order) and is at least that long;
\* what lies past the payload is not rewritten.  Reconciling a mirror that
\* already begins with the payload does not change it.
MirrorBeginsWithRebuilt ==
    /\ [](/\ pc \in {"upload_materials", "dispatch"} =>
               /\ Len(hyper_spheres_storage_buffer.data) >= Len(SpheresPayload)
               /\ Prefix(hyper_spheres_storage_buffer.data,
                         Len(SpheresPayload)) = SpheresPayload
               /\ hyper_spheres_storage_buffer.data[1] = Len(hyper_spheres)
               /\ Len(hyper_planes_storage_buffer.data) >= Len(PlanesPayload)
               /\ Prefix(hyper_planes_storage_buffer.data,
                         Len(PlanesPayload)) = PlanesPayload
               /\ hyper_planes_storage_buffer.data[1] = Len(hyper_planes)
          /\ pc = "dispatch" =>
               /\ Len(materials_storage_buffer.data) >= Len(MaterialsPayload)
               /\ Prefix(materials_storage_buffer.data,
                         Len(MaterialsPayload)) = MaterialsPayload
               /\ materials_storage_buffer.data[1] = Len(materials))
    /\ [][/\ (/\ pc = "upload_objects"
              /\ Len(hyper_spheres_storage_buffer.data) >= Len(SpheresPayload)
              /\ Prefix(hyper_spheres_storage_buffer.data,
                        Len(SpheresPayload)) = SpheresPayload) =>
               hyper_spheres_storage_buffer' = hyper_spheres_storage_buffer
          /\ (/\ pc = "upload_objects"
              /\ Len(hyper_planes_storage_buffer.data) >= Len(PlanesPayload)
              /\ Prefix(hyper_planes_storage_buffer.data,
                        Len(PlanesPayload)) = PlanesPayload) =>
               hyper_planes_storage_buffer' = hyper_planes_storage_buffer
          /\ (/\ pc = "upload_materials"
              /\ Len(materials_storage_buffer.data) >= Len(MaterialsPayload)
              /\ Prefix(materials_storage_buffer.data,
                        Len(MaterialsPayload)) = MaterialsPayload) =>
               materials_storage_buffer' = materials_storage_buffer]_vars

\* C6 witness: after reconciliation that followed a deletion, the spheres
\* mirror begins with the payload and holds an older record past it.
StaleRecordPastPayload ==
    /\ pc = "dispatch"
    /\ sphere_deletes > 0
    /\ Len(hyper_spheres_storage_buffer.data) > Len(SpheresPayload)
    /\ Prefix(hyper_spheres_storage_buffer.data, Len(SpheresPayload))
         = SpheresPayload
    /\ hyper_spheres_storage_buffer.data[
           Len(hyper_spheres_storage_buffer.data)] # ZeroSphere

\* C7: hyper_spheres and hyper_sphere_names have equal length, and
\* hyper_planes and hyper_plane_names have equal length, in every state.
NamesPairedInLength ==
    /\ Len(hyper_spheres) = Len(hyper_sphere_names)
    /\ Len(hyper_planes) = Len(hyper_plane_names)

\* C7 witness: spheres and planes have been added and deleted.
AddedAndDeleted ==
    /\ sphere_adds > 0
    /\ sphere_deletes > 0
    /\ Len(hyper_sphere_names) > 0
    /\ \E i \in 1 .. Len(hyper_planes) : hyper_planes[i].material > 1
    /\ \A i \in 1 .. Len(hyper_planes) : hyper_planes[i].material # 1
    /\ Len(hyper_plane_names) > 0

\* C8: the material index of every hyper sphere and every hyper plane is
\* less than the length of materials, in every state.
MaterialIndicesInRange ==
    /\ \A i \in 1 .. Len(hyper_spheres) :
         hyper_spheres[i].material < Len(materials)
    /\ \A i \in 1 .. Len(hyper_planes) :
         hyper_planes[i].material < Len(materials)

\* C8 witness: an added sphere references the last material, an added plane
\* an earlier added one, and the initial sphere has been deleted.
AddedObjectsReferenceAddedMaterials ==
    /\ \E i \in 1 .. Len(hyper_spheres) :
         hyper_spheres[i].material = Len(materials) - 1
    /\ \E i \in 1 .. Len(hyper_planes) :
         /\ hyper_planes[i].material > 1
         /\ hyper_planes[i].material < Len(materials) - 1
    /\ \A i \in 1 .. Len(hyper_spheres) : hyper_spheres[i].material # 0

\* C9: a frame's "Add Hyper Sphere" with no deletion appends exactly one
\* sphere, one name and one material, the new sphere's material index being
\* the index of the material appended with it; and after n such actions
\* with no sphere deleted the count header of the reconciled spheres mirror
\* is 1 + n and that of the materials mirror at least 2 + n.
AddAppendsOneOfEach ==
    /\ [][(sphere_adds' = sphere_adds + 1
              /\ sphere_deletes' = sphere_deletes) =>
            /\ hyper_spheres' = Append(hyper_spheres,
                                       hyper_spheres'[Len(hyper_spheres')])
            /\ Len(hyper_sphere_names') = Len(hyper_sphere_names) + 1
            /\ SubSeq(hyper_sphere_names', 1, Len(hyper_sphere_names))
                 = hyper_sphere_names
            /\ Len(materials') = Len(materials) + 1
            /\ SubSeq(materials', 1, Len(materials)) = materials
            /\ hyper_spheres'[Len(hyper_spheres')].material
                 = Len(materials') - 1]_vars
    /\ []((pc = "dispatch" /\ sphere_deletes = 0) =>
            /\ hyper_spheres_storage_buffer.data[1] = 1 + sphere_adds
            /\ materials_storage_buffer.data[1] >= 2 + sphere_adds)

\* C9 witness: two spheres added, none deleted, mirrors reconciled.
TwoSpheresAdded ==
    /\ pc = "dispatch"
    /\ sphere_adds >= 2
    /\ sphere_deletes = 0
    /\ hyper_spheres_storage_buffer.data[1] = 1 + sphere_adds

\* the clamped numeric fields of a camera record
CameraClamped(c) ==
    /\ F32Ge(c.min_distance, F32(0))
    /\ F32Ge(c.max_distance, c.min_distance)
    /\ c.bounce_count >= 1
    /\ c.sample_count >= 1

\* C10: after every pass through the camera section, whatever the widgets
\* wrote, min_distance >= 0, max_distance >= min_distance, bounce_count >= 1
\* and sample_count >= 1; they hold of every camera record uploaded to the
\* uniform buffer and given to the kernel.
CameraClampedAtUpload ==
    /\ CameraClamped(camera)
    /\ pc \in {"upload_objects", "upload_materials", "dispatch"} =>
         CameraClamped(camera_uniform_buffer)
    /\ dispatched # << >> => CameraClamped(dispatched[1].camera)

\* C10 witness: the kernel is given a camera record whose fields were all
\* edited: max_distance was brought up to an edited min_distance, and the
\* counts are no longer the initial ones.
EditedCameraDispatched ==
    /\ dispatched # << >>
    /\ dispatched[1].camera.min_distance.v >= 2
    /\ dispatched[1].camera.max_distance = dispatched[1].camera.min_distance
    /\ dispatched[1].camera.bounce_count = 1
    /\ dispatched[1].camera.sample_count >= 2

\* the constant named by the same two axes in the other order
Reversed(name) ==
    CASE name = "XY" -> "YX" [] name = "YX" -> "XY"
      [] name = "XZ" -> "ZX" [] name = "ZX" -> "XZ"
      [] name = "XW" -> "WX" [] name = "WX" -> "XW"
      [] name = "YZ" -> "ZY" [] name = "ZY" -> "YZ"
      [] name = "YW" -> "WY" [] name = "WY" -> "YW"
      [] name = "ZW" -> "WZ" [] name = "WZ" -> "ZW"

\* the value 1 at the component of an axis pair (i, j), i < j, 0 elsewhere
UnitAt(name) ==
    CASE name = "XY" -> BiVector4(1, 0, 0, 0, 0, 0)
      [] name = "XZ" -> BiVector4(0, 1, 0, 0, 0, 0)
      [] name = "XW" -> BiVector4(0, 0, 1, 0, 0, 0)
      [] name = "YZ" -> BiVector4(0, 0, 0, 1, 0, 0)
      [] name = "YW" -> BiVector4(0, 0, 0, 0, 1, 0)
      [] name = "ZW" -> BiVector4(0, 0, 0, 0, 0, 1)

\* C13: the twelve named unit planes are antisymmetric: the constant of an
\* axis pair (i, j) with i < j is 1 at that pair's component and 0
\* elsewhere, and the negation of every constant is the constant of the
\* same axes in the other order (XY = -YX, ..., ZW = -WZ).
UnitPlanesAntisymmetric ==
    (calc.fn = "neg" /\ calc.done) =>
        /\ calc.out = UnitPlane(Reversed(calc.name))
        /\ calc.name \in {"XY", "XZ", "XW", "YZ", "YW", "ZW"} =>
               UnitPlane(calc.name) = UnitAt(calc.name)

\* C14: the twelve named unit planes are pairwise distinct: two constants
\* of different names never compare equal.
UnitPlanesPairwiseDistinct ==
    (calc.fn = "eq" /\ calc.done /\ calc.a # calc.b) => ~calc.out

\* the squared length of a tuple of four integers
SqrLen(t) == Dot(t, t)

\* two tuples point the same way: one is a positive multiple of the other
SameDirection(t, u) ==
    /\ \A i \in 1 .. 4 : \A j \in 1 .. 4 : t[i] * u[j] = t[j] * u[i]
    /\ Dot(t, u) > 0

\* C15: rotate_vec preserves length for every unit rotor; without
\* normalizing, |rotate_vec(v)|^2 = (s^2 + |bv|^2)^2 * |v|^2 for all integer
\* rotor components and vectors, rotors mixing disjoint planes included.
RotateVecPreservesLength ==
    (calc.fn = "rotate_vec" /\ calc.done) =>
        SqrLen(calc.out.v) =
            Rotor4_sqr_length(calc.self) * Rotor4_sqr_length(calc.self)
                * SqrLen(calc.v.v)

\* a Vector4 has length 1 / two Vector4 are orthogonal
UnitLength(vec) == ~vec.nan /\ SqrLen(vec.v) = vec.d * vec.d

Orthogonal(a, b) == ~a.nan /\ ~b.nan /\ Dot(a.v, b.v) = 0

\* C16: for every combination of the four camera angles, forward, right and
\* up (the composite rotor applied to the pure-z, pure-x and pure-y unit
\* vectors) are pairwise orthogonal and each of unit length.
CameraBasisOrthonormal ==
    (calc.fn = "camera_rotation" /\ calc.done) =>
        /\ UnitLength(calc.out.forward)
        /\ UnitLength(calc.out.right)
        /\ UnitLength(calc.out.up)
        /\ Orthogonal(calc.out.forward, calc.out.right)
        /\ Orthogonal(calc.out.forward, calc.out.up)
        /\ Orthogonal(calc.out.right, calc.out.up)

\* the rotor's value is the identity rotor's: scalar 1, zero plane part
IsIdentity(rotor) ==
    /\ ~rotor.nan
    /\ rotor.bv = ZERO
    /\ rotor.s > 0
    /\ rotor.s * rotor.s = rotor.n2

RotationBetweenMapsFromToTo ==
    (calc.fn = "from_rotation_between" /\ calc.done
        /\ calc.to.v # VecNeg(calc.from.v)) =>
        /\ ~calc.image.nan
        /\ VecScale(calc.to.d, calc.image.v) = VecScale(calc.image.d, calc.to.v)
        /\ SameDirection(rotate_vec(calc.raw, calc.from).v, calc.to.v)

\* C18 witness: the rotor between two unit vectors that are neither equal,
\* nor opposite, nor orthogonal, nor on an axis was applied to the first.
ObliqueRotationBetween ==
    /\ calc.fn = "from_rotation_between" /\ calc.done
    /\ calc.from.v = << 1, 2, 2, 0 >>
    /\ calc.to.v = << 2, 0, -1, 2 >>
    /\ VecScale(calc.to.d, calc.image.v) = VecScale(calc.image.d, calc.to.v)

\* C19: normalizing a zero-norm plane or rotor never returns a value whose
\* components are indeterminate (the outcome of dividing by a zero length).
ZeroNormNormalizedDeterminate ==
    /\ (calc.fn = "BiVector4::normalized" /\ calc.done
          /\ BiVector4_sqr_length(calc.self) = 0) => ~calc.out.nan
    /\ (calc.fn = "Rotor4::normalized" /\ calc.done
          /\ Rotor4_sqr_length(calc.self) = 0) => ~calc.out.nan

\* C20: for antiparallel unit inputs (to = -from) the value built before
\* normalization has scalar 0 and a zero plane part, so its length is zero
\* and the normalization divides by it.
AntiparallelDividesByZero ==
    (calc.fn = "from_rotation_between" /\ calc.done
        /\ calc.to.v = VecNeg(calc.from.v)) =>
        /\ calc.raw.s = 0
        /\ calc.raw.bv = ZERO
        /\ Rotor4_sqr_length(calc.raw) = 0
        /\ calc.out.nan

\* C20 witness: from_rotation_between returned for a unit vector off every
\* axis and its opposite.
AntiparallelOffAxis ==
    /\ calc.fn = "from_rotation_between" /\ calc.done
    /\ calc.from.v = << 1, 2, 2, 0 >>
    /\ calc.to.v = << -1, -2, -2, 0 >>
    /\ calc.out.nan

\* the four angles of a camera record are in [0, TAU)
AnglesWrapped(c) == \A name \in AngleNames : 0 <= c[name] /\ c[name] < TAU

\* C11: each of the four stored camera angles lies in [0, 2*pi) whenever the
\* camera rotor is built from them, after any sequence of edits in the
\* camera section and of arrow-key input, the section shown or not.
AnglesWrappedWhenRotorBuilt ==
    pc = "camera_rotation" => AnglesWrapped(camera)

\* the forward, right and up of a record are those of a basis
SameBasis(record, basis) ==
    /\ record.forward = basis.forward
    /\ record.right = basis.right
    /\ record.up = basis.up

\* C12 as stated: the forward, right and up written to the camera record in
\* a frame are the function of the four angles as they stand after that
\* frame's edits in the camera section.
UploadedBasisFollowsEdits ==
    pc = "upload_objects" =>
        SameBasis(camera_uniform_buffer, CameraBasis(camera))

\* C12, corrected: within each frame the rotor and forward, right and up
\* are computed first, from the angles as the previous frame's key input
\* left them; the camera section is shown after that and its edits do not
\* change them; the upload writes them as computed.  They reach the camera
\* record without this frame's edits of the angles, which the next frame's
\* computation picks up.
UploadedBasisPrecedesEdits ==
    /\ [][pc = "camera_rotation" =>
              (pc' = "camera_panel" /\ camera_basis' = CameraBasis(camera))]_vars
    /\ [][(pc \in {"camera_panel", "spheres_panel", "planes_panel",
                   "upload_camera"}) => (camera_basis' = camera_basis)]_vars
    /\ [](pc = "upload_objects" =>
              SameBasis(camera_uniform_buffer, camera_basis))

\* C12 witness: a frame turned the camera in the camera section and
\* uploaded the forward, right and up of the angles before the edit.
StaleBasisUploaded ==
    /\ pc = "upload_objects"
    /\ AnglesWrapped(camera)
    /\ SameBasis(camera_uniform_buffer, camera_basis)
    /\ camera_uniform_buffer.forward # CameraBasis(camera).forward

\* C21: the arrow keys are gated by shift: in a frame where shift is held
\* the input step changes only weird_pitch and weird_yaw and leaves pitch
\* and yaw as they were; in a frame where it is not held the step changes
\* only pitch and yaw and leaves weird_pitch and weird_yaw as they were.
ArrowKeysGatedByShift ==
    [][pc = "input" =>
          /\ modifiers'.shift =>
                 /\ camera'.pitch = camera.pitch
                 /\ camera'.yaw = camera.yaw
          /\ ~modifiers'.shift =>
                 /\ camera'.weird_pitch = camera.weird_pitch
                 /\ camera'.weird_yaw = camera.weird_yaw]_vars

\* C21 witness: the arrow keys were held with shift in a frame that began
\* with wrapped angles: a 4D angle left [0, TAU) while pitch and yaw are
\* inside it.
WeirdAngleTurnedWithShift ==
    /\ pc = "camera_rotation"
    /\ modifiers.shift
    /\ camera.weird_yaw < 0
    /\ camera.weird_pitch >= TAU
    /\ camera.pitch \in 0 .. TAU - 1
    /\ camera.yaw \in 0 .. TAU - 1

\* C22: in every reachable state every hyper sphere of the sequence has a
\* strictly positive radius, after any sequence of adds and radius edits.
RadiusStrictlyPositive ==
    \A i \in 1 .. Len(hyper_spheres) : hyper_spheres[i].radius > 0

\* the number x over the square root of n2 equals y over d
SameNumber(x, n2, y, d) == x * x * d * d = y * y * n2 /\ x * y >= 0

\* C23: for every angle and every unit plane P, from_angle_plane(angle, P)
\* is a rotor of unit norm whose scalar is cos(angle/2) and whose plane part
\* is P scaled by -sin(angle/2).
FromAnglePlaneUnit ==
    (calc.fn = "from_angle_plane" /\ calc.done) =>
        LET sin == calc.half_angle.sin
            cos == calc.half_angle.cos
            plane == calc.plane
            out == calc.out
            d == TrigDivisor * UnitDivisor
        IN /\ ~out.nan
           /\ Rotor4_sqr_length(out) = out.n2
           /\ SameNumber(out.s, out.n2, cos * UnitDivisor, d)
           /\ SameNumber(out.bv.xy, out.n2, (-sin) * plane.xy, d)
           /\ SameNumber(out.bv.xz, out.n2, (-sin) * plane.xz, d)
           /\ SameNumber(out.bv.xw, out.n2, (-sin) * plane.xw, d)
           /\ SameNumber(out.bv.yz, out.n2, (-sin) * plane.yz, d)
           /\ SameNumber(out.bv.yw, out.n2, (-sin) * plane.yw, d)
           /\ SameNumber(out.bv.zw, out.n2, (-sin) * plane.zw, d)

\* C23 witness: from_angle_plane returned for an angle whose half has sine
\* 3/5 and cosine 4/5 and a unit plane with parts in xy, yz and zw.
ObliqueAngleObliquePlane ==
    /\ calc.fn = "from_angle_plane" /\ calc.done
    /\ calc.half_angle = [sin |-> 3, cos |-> 4]
    /\ calc.plane = BiVector4(1, 0, 0, 2, 0, -2)
    /\ calc.out.s > 0
    /\ calc.out.bv.zw > 0
    /\ Rotor4_sqr_length(calc.out) = calc.out.n2

\* the elements of a sequence whose indices (from 0) are not flagged, in
\* their order
RECURSIVE Unflagged(_, _, _)
Unflagged(seq, flagged, i) ==
    IF i >= Len(seq) THEN << >>
    ELSE (IF i \in flagged THEN << >> ELSE << seq[i + 1] >>)
            \o Unflagged(seq, flagged, i + 1)

\* C24: for any set of indices flagged in one frame the delete loop removes
\* exactly the flagged records together with their names, keeps every
\* unflagged record with its own name in the original order, and never
\* indexes past the end of the sequence.
DeleteLoopRemovesFlagged ==
    (calc.fn = "delete" /\ calc.done) =>
        /\ ~calc.out.panicked
        /\ calc.out.objects = Unflagged(calc.objects, calc.to_delete, 0)
        /\ calc.out.names = Unflagged(calc.names, calc.to_delete, 0)

=============================================================================
